---- MODULE Spec2Model ----
(***************************************************************************)
(* Model of ai-service/identify_plant.py: the content-based plant matcher  *)
(* (identify_plant), the teaching path (learn_plant) and the command-line  *)
(* entry point (main), over an abstract file system.                       *)
(*                                                                         *)
(* Strings that the code takes apart (labels, file stems, error messages)  *)
(* are sequences of tokens; a label is a sequence of one-character tokens. *)
(* A file's content is a token naming its bytes.  Feature vectors are      *)
(* short integer vectors; a float is the rational it stands for, and every *)
(* float operation rounds its exact result to MantissaBits significant     *)
(* bits.                                                                   *)
(***************************************************************************)
EXTENDS Integers, Sequences, FiniteSets, TLC

\* ------------------------------------------------------------------ bounds
MaxFiles == 3           \* learned files present when a learn request is accepted
MaxLog == 2             \* audit-log entries present when a learn request is accepted
MantissaBits == 12      \* significant bits a float keeps (np.float32 keeps 24)
MaxLen == 3             \* longest vector handed to calculate_similarity alone

\* ------------------------------------------------------------ file system
\* Input files handed to the program: path -> bytes.  "nope.jpg" is absent.
FS == ("a.jpg" :> "A") @@ ("b.jpg" :> "B") @@ ("x.jpg" :> "X")
      @@ ("g.gif" :> "G")

Paths == {"a.jpg", "b.jpg", "x.jpg", "g.gif", "nope.jpg"}

\* Paths given to learning requests.  learn_plant never calls PIL, so it
\* treats g.gif exactly as x.jpg (cv2.imread returns None for both).
LearnPaths == Paths \ {"g.gif"}

\* Image.open(path).verify() succeeds: A, B, D are JPEGs, G is a GIF
\* (PIL verifies it, OpenCV cannot decode it), X is garbage.
PilVerifiesAnything(bytes) == TRUE
PilVerifies(bytes) == bytes \in {"A", "B", "D", "G"}

\* cv2.imread(path) returns an image
CvReads(bytes) == bytes \in {"A", "B", "D"}

\* The descriptor extract_features computes from the decoded pixels.
\* |A| = 1, |B| = 10, |D| = 5; cos(A,B) = 7/10, cos(A,D) = 4/5.
FeatureOf == ("A" :> <<1, 0, 0, 0>>) @@ ("B" :> <<7, 1, 1, 7>>)
             @@ ("D" :> <<4, 3, 0, 0>>)

\* hashlib.md5(bytes).hexdigest()[:8]
MD5Prefix == ("A" :> "0a") @@ ("B" :> "0b") @@ ("D" :> "0d")
             @@ ("X" :> "0x") @@ ("G" :> "0g")

\* Static datasets the service may be deployed with: the *.jpg files of the
\* label directories, in iterdir/glob order.
StaticDatasets ==
    { <<>>,
      << [label |-> <<"m">>, bytes |-> "X"],
         [label |-> <<"m">>, bytes |-> "D"],
         [label |-> <<"t">>, bytes |-> "B"] >> }

\* What a deployment starts from: a static dataset, and a cache file and a
\* log file that are absent or hold bytes that do not deserialize.
Deployments ==
    { [static |-> d, cache |-> "absent", log |-> "absent"] :
          d \in StaticDatasets \ {<<>>} }
    \cup { [static |-> <<>>, cache |-> "corrupt", log |-> "absent"],
           [static |-> <<>>, cache |-> "absent", log |-> "corrupt"] }

\* What datetime.now() reads during the requests, in seconds: they all arrive
\* within one second, the case in which an equal label and image give an
\* equal file name.
Clock == {0}

\* Plant names given on the command line.
RawLabels == { <<" ", "T">>, <<"r", " ", "b">>, <<" ">> }

\* ------------------------------------------------------------------ CONFIG
SimilarityThreshold == [num |-> 7, den |-> 10]

\* ----------------------------------------------------------- text helpers
Whitespace == {" ", "\t", "\n"}

UpperToLower == ("R" :> "r") @@ ("M" :> "m") @@ ("B" :> "b") @@ ("T" :> "t")

RECURSIVE LStrip(_)
LStrip(s) ==
    IF s = <<>> THEN <<>>
    ELSE IF Head(s) \in Whitespace THEN LStrip(Tail(s)) ELSE s

RECURSIVE RStrip(_)
RStrip(s) ==
    IF s = <<>> THEN <<>>
    ELSE IF s[Len(s)] \in Whitespace THEN RStrip(SubSeq(s, 1, Len(s) - 1))
    ELSE s

\* str.strip()
StripNothing(s) == s
Strip(s) == RStrip(LStrip(s))

\* str.lower()
LowerNothing(s) == s
Lower(s) ==
    IF s = <<>> THEN <<>>
    ELSE [i \in 1..Len(s) |->
            IF s[i] \in DOMAIN UpperToLower THEN UpperToLower[s[i]] ELSE s[i]]

\* str.replace(' ', '_')
ReplaceSpaces(s) ==
    IF s = <<>> THEN <<>>
    ELSE [i \in 1..Len(s) |-> IF s[i] = " " THEN "_" ELSE s[i]]

\* plant_name.strip().lower().replace(' ', '_')
CleanName(plant_name) == ReplaceSpaces(Lower(Strip(plant_name)))

\* stem.split('_')[0]
SplitFirst(stem) ==
    LET us == {i \in 1..Len(stem) : stem[i] = "_"}
    IN  IF us = {} THEN stem
        ELSE SubSeq(stem, 1, (CHOOSE i \in us : \A j \in us : i <= j) - 1)

\* datetime.now().strftime('%Y%m%d_%H%M%S'): a date and a time of day
Timestamp(t) == <<ToString(t \div 86400), "_", ToString(t % 86400)>>

\* f"{plant_name}_{timestamp}_{image_hash}" (the stem of the stored .jpg)
Filename(plant_name, t, bytes) ==
    plant_name \o <<"_">> \o Timestamp(t) \o <<"_">> \o <<MD5Prefix[bytes]>>

\* 'needle in message' for token sequences
Contains(msg, needle) ==
    \E i \in 1..(Len(msg) - Len(needle) + 1) :
        SubSeq(msg, i, i + Len(needle) - 1) = needle

\* ------------------------------------------------------------------- state
VARIABLES
    source,     \* the image files handed to the program: path -> bytes
    static,     \* the static dataset: sequence of [label, bytes]
    learned,    \* the learned-image directory: [exists, files: stem -> bytes]
    dirOrder,   \* the order in which that directory lists its *.jpg stems
    cacheFile,  \* features_cache.pkl: [state, data: label -> descriptor]
    logFile,    \* learning_log.json: [state, data: sequence of entries]
    call,       \* the last request: [op, path, label], and whether it is
                \* an identification repeating the request before it
    result,     \* the result dictionary the last request produced
    locals,     \* identify_plant's local variables when the last request ended
    uncaught,   \* an exception left identify_plant / learn_plant
    stdout,     \* what the last request printed: "diag" lines, "json" documents
    exitCode,   \* the exit status of the last request
    hist,       \* the successful learn requests so far: [plant_name, path]
    proc,       \* learn_plant / identify_plant invocations running as
                \* concurrent processes
    calc        \* a call of calculate_similarity on its own: arguments, outcome

vars == <<source, static, learned, dirOrder, cacheFile, logFile, call, result,
          locals, uncaught, stdout, exitCode, hist, proc, calc>>

\* -------------------------------------------------------- image pipeline
\* os.path.exists(image_path)
Exists(path) == path \in DOMAIN source

\* preprocess_image raises ValueError when cv2.imread returns None
preprocess_image(bytes) == [ok |-> CvReads(bytes), image |-> bytes]

\* extract_features: a pure function of the decoded pixels
extract_features(image) == FeatureOf[image]

\* A float is the rational [num, den] it stands for, in lowest terms.
RECURSIVE GCD(_, _)
GCD(a, b) == IF b = 0 THEN a ELSE GCD(b, a % b)

Abs(x) == IF x < 0 THEN -x ELSE x

Ratio(n, d) ==
    IF n = 0 THEN [num |-> 0, den |-> 1]
    ELSE [num |-> n \div GCD(Abs(n), d), den |-> d \div GCD(Abs(n), d)]

Zero == [num |-> 0, den |-> 1]

Neg(x) == [num |-> -x.num, den |-> x.den]

\* a > b on floats
SimGT(a, b) == a.num * b.den > b.num * a.den

\* round(x, 3), in thousandths
Round3(x) ==
    IF x.num >= 0 THEN (2000 * x.num + x.den) \div (2 * x.den)
    ELSE -((2000 * (-x.num) + x.den) \div (2 * x.den))

\* a/d rounded to the nearest integer, ties to even (a >= 0, d > 0)
RoundHalfEven(a, d) ==
    IF 2 * (a % d) > d \/ (2 * (a % d) = d /\ (a \div d) % 2 = 1)
    THEN (a \div d) + 1
    ELSE a \div d

\* (a/d) * 2^e rounded to MantissaBits significant bits: scale a/d into
\* [2^(MantissaBits-1), 2^MantissaBits), round it, scale back
RECURSIVE FlScaled(_, _, _)
FlScaled(a, d, e) ==
    IF a \div d >= 2^MantissaBits
    THEN IF a % 2 = 0 THEN FlScaled(a \div 2, d, e + 1)
                      ELSE FlScaled(a, 2 * d, e + 1)
    ELSE IF a \div d < 2^(MantissaBits - 1)
    THEN IF d % 2 = 0 THEN FlScaled(a, d \div 2, e - 1)
                      ELSE FlScaled(2 * a, d, e - 1)
    ELSE IF e >= 0 THEN [num |-> RoundHalfEven(a, d) * 2^e, den |-> 1]
    ELSE Ratio(RoundHalfEven(a, d), 2^(-e))

\* the float nearest to the real number x: what every float operation
\* returns for its exact result
Fl(x) ==
    IF x.num = 0 THEN Zero
    ELSE IF x.num > 0 THEN FlScaled(x.num, x.den, 0)
    ELSE Neg(FlScaled(-x.num, x.den, 0))

\* x * y and n / y on floats (n an integer-valued float)
FMul(x, y) == Fl(Ratio(x.num * y.num, x.den * y.den))
FDiv(n, y) ==
    IF y.num > 0 THEN Fl(Ratio(n * y.den, y.num))
    ELSE Fl(Ratio(-n * y.den, -y.num))

\* the integer part of the square root of S, known to lie in lo..hi-1
RECURSIVE ISqrt(_, _, _)
ISqrt(S, lo, hi) ==
    IF hi - lo <= 1 THEN lo
    ELSE IF ((lo + hi) \div 2) * ((lo + hi) \div 2) <= S
    THEN ISqrt(S, (lo + hi) \div 2, hi)
    ELSE ISqrt(S, lo, (lo + hi) \div 2)

\* the integer nearest to the square root of S
RoundedRoot(S, r) == IF S > r * r + r THEN r + 1 ELSE r

\* sqrt(s) rounded to MantissaBits significant bits: the root of s * 4^k for
\* the largest k that keeps it below 2^MantissaBits, over 2^k
RECURSIVE FSqrtAt(_, _)
FSqrtAt(s, k) ==
    IF s * 4^(k + 1) < 4^MantissaBits THEN FSqrtAt(s, k + 1)
    ELSE Ratio(RoundedRoot(s * 4^k, ISqrt(s * 4^k, 0, 2^MantissaBits)), 2^k)

FSqrt(s) == IF s = 0 THEN Zero ELSE FSqrtAt(s, 0)

\* sums of products of the components: small integers, exact in a float
RECURSIVE SumSq(_)
SumSq(v) == IF v = <<>> THEN 0 ELSE Head(v) * Head(v) + SumSq(Tail(v))

MinLen(a, b) == IF Len(a) < Len(b) THEN Len(a) ELSE Len(b)

RECURSIVE DotTo(_, _, _)
DotTo(a, b, n) == IF n = 0 THEN 0 ELSE a[n] * b[n] + DotTo(a, b, n - 1)

\* np.dot of two vectors of one length
Dot(a, b) == DotTo(a, b, MinLen(a, b))

\* np.linalg.norm: sqrt(dot(x, x))
Norm(v) == FSqrt(SumSq(v))

NaN == [num |-> 0, den |-> 0]

\* similarity = np.dot(features1, features2) / (norm1 * norm2), guarded:
\* value is the returned float; printed tells whether the except branch
\* printed "Similarity calculation error" (np.dot raises on vectors of
\* different lengths); divided, whether the division took place.
CosineUnguarded(features1, features2, norm1, norm2) ==
    IF Len(features1) # Len(features2)
    THEN [value |-> Zero, printed |-> TRUE, divided |-> FALSE]
    ELSE IF norm1.num = 0 \/ norm2.num = 0
    THEN [value |-> NaN, printed |-> FALSE, divided |-> TRUE]
    ELSE [value |-> FDiv(Dot(features1, features2), FMul(norm1, norm2)),
          printed |-> FALSE, divided |-> TRUE]
Cosine(features1, features2, norm1, norm2) ==
    IF norm1.num = 0 \/ norm2.num = 0
    THEN [value |-> Zero, printed |-> FALSE, divided |-> FALSE]
    ELSE IF Len(features1) # Len(features2)
    THEN [value |-> Zero, printed |-> TRUE, divided |-> FALSE]
    ELSE [value |-> FDiv(Dot(features1, features2), FMul(norm1, norm2)),
          printed |-> FALSE, divided |-> TRUE]

calculate_similarity(features1, features2) ==
    Cosine(features1, features2, Norm(features1), Norm(features2))

\* ---------------------------------------------------------------- results
None == <<"None">>      \* Python's None as a plant name
Absent == <<>>          \* a key the dictionary does not carry
NoConfidence == -1      \* no 'confidence' key

ResultDict(success, plant_name, confidence, error, needs_learning, stored_path) ==
    [success |-> success, plant_name |-> plant_name, confidence |-> confidence,
     error |-> error, needs_learning |-> needs_learning,
     stored_path |-> stored_path]

ErrorResult(error) == ResultDict(FALSE, Absent, NoConfidence, error, FALSE, Absent)

NotFoundErrorReworded(path) == <<"No", "such", "image", ":", path>>
NotFoundError(path) == <<"Image", "file", "not", "found", ":", path>>
InvalidError == <<"Invalid", "image", "file", ":", "cannot", "identify">>
PreprocessError == <<"Image", "preprocessing", "failed", ":", "Could", "not", "read", "image">>
UnpickleError == <<"could", "not", "unpickle">>
JSONDecodeError == <<"Expecting", "value">>
UnknownError == <<"I", "do", "not", "know", "this", "plant">>
EmptyNameError == <<"Plant", "name", "cannot", "be", "empty">>
UsageError == <<"Usage", ":", "python", "identify_plant.py">>
IdentifyFailed(e) == <<"Plant", "identification", "failed", ":">> \o e
LearnFailed(e) == <<"Learning", "failed", ":">> \o e
UnexpectedError(e) == <<"Unexpected", "error", ":">> \o e

\* ------------------------------------------------------------- the scan
\* dict item assignment: d[name] = features
DictSet(d, name, features) ==
    [k \in (DOMAIN d) \cup {name} |-> IF k = name THEN features ELSE d[k]]

EmptyDict == [k \in {} |-> <<>>]

\* pickle.load of the cache file if it exists, else {}
LoadCache == IF cacheFile.state = "ok" THEN cacheFile.data ELSE EmptyDict

\* The loop state of identify_plant: max_similarity, best_match_name and
\* cached_features, plus what the loops did: how many entries were compared,
\* for how many the except branch ran, and the diagnostic lines printed.
ScanStart(cached_features) ==
    [max_similarity |-> Zero, best_match_name |-> None,
     cached_features |-> cached_features,
     compared |-> 0, skipped |-> 0, printed |-> <<>>]

\* if similarity > max_similarity: max_similarity = ...; best_match_name = ...
UpdateLastWins(acc, sim, name) ==
    IF ~SimGT(acc.max_similarity, sim.value)
    THEN [acc EXCEPT !.max_similarity = sim.value,
                     !.best_match_name = name,
                     !.compared = @ + 1,
                     !.printed = IF sim.printed THEN Append(@, "diag") ELSE @]
    ELSE [acc EXCEPT !.compared = @ + 1,
                     !.printed = IF sim.printed THEN Append(@, "diag") ELSE @]
Update(acc, sim, name) ==
    IF SimGT(sim.value, acc.max_similarity)
    THEN [acc EXCEPT !.max_similarity = sim.value,
                     !.best_match_name = name,
                     !.compared = @ + 1,
                     !.printed = IF sim.printed THEN Append(@, "diag") ELSE @]
    ELSE [acc EXCEPT !.compared = @ + 1,
                     !.printed = IF sim.printed THEN Append(@, "diag") ELSE @]

\* similarity = calculate_similarity(features, ...), then the update
Compare(acc, features, ref_features, name) ==
    Update(acc, calculate_similarity(features, ref_features), name)

\* except Exception as e: print(f"Error processing ..."); continue
Skip(acc) ==
    [acc EXCEPT !.skipped = @ + 1, !.printed = Append(@, "diag")]

\* the body of the static loop for one image file
StaticStep(acc, features, e) ==
    IF ~preprocess_image(e.bytes).ok THEN Skip(acc)
    ELSE Compare(acc, features,
                 extract_features(preprocess_image(e.bytes).image), e.label)

\* for label_dir in dataset_path.iterdir(): for image_file in glob('*.jpg')
RECURSIVE ScanStaticBreaking(_, _, _)
ScanStaticBreaking(entries, features, acc) ==
    IF entries = <<>> THEN acc
    ELSE IF ~preprocess_image(Head(entries).bytes).ok THEN Skip(acc)
    ELSE ScanStaticBreaking(Tail(entries), features,
                            StaticStep(acc, features, Head(entries)))
RECURSIVE ScanStatic(_, _, _)
ScanStatic(entries, features, acc) ==
    IF entries = <<>> THEN acc
    ELSE ScanStatic(Tail(entries), features,
                    StaticStep(acc, features, Head(entries)))

\* the body of the learned loop for one file: cache hit, or miss and fill
LearnedStepRefresh(acc, features, learned_name, bytes) ==
    IF ~preprocess_image(bytes).ok
    THEN IF learned_name \in DOMAIN acc.cached_features
         THEN Compare(acc, features, acc.cached_features[learned_name],
                      learned_name)
         ELSE Skip(acc)
    ELSE Compare([acc EXCEPT !.cached_features =
                     DictSet(@, learned_name,
                             extract_features(preprocess_image(bytes).image))],
                 features, extract_features(preprocess_image(bytes).image),
                 learned_name)
LearnedStep(acc, features, learned_name, bytes) ==
    IF learned_name \in DOMAIN acc.cached_features
    THEN Compare(acc, features, acc.cached_features[learned_name], learned_name)
    ELSE IF ~preprocess_image(bytes).ok THEN Skip(acc)
    ELSE Compare([acc EXCEPT !.cached_features =
                     DictSet(@, learned_name,
                             extract_features(preprocess_image(bytes).image))],
                 features, extract_features(preprocess_image(bytes).image),
                 learned_name)

\* for learned_file in learned_path.glob('*.jpg'), in the order the file
\* system enumerates the stems
RECURSIVE ScanLearnedEarlyExit(_, _, _, _)
ScanLearnedEarlyExit(order, files, features, acc) ==
    IF order = <<>> \/ ~SimGT([num |-> 1, den |-> 1], acc.max_similarity) THEN acc
    ELSE ScanLearnedEarlyExit(Tail(order), files, features,
                     LearnedStep(acc, features, SplitFirst(Head(order)),
                                 files[Head(order)]))
RECURSIVE ScanLearned(_, _, _, _)
ScanLearned(order, files, features, acc) ==
    IF order = <<>> THEN acc
    ELSE ScanLearned(Tail(order), files, features,
                     LearnedStep(acc, features, SplitFirst(Head(order)),
                                 files[Head(order)]))

\* if max_similarity > CONFIG['similarity_threshold']: ... else: ...
\* (the decision as it comes out for a given threshold)
DecideWithSwapped(threshold, max_similarity, best_match_name) ==
    IF SimGT(threshold, max_similarity)
    THEN ResultDict(TRUE, best_match_name, Round3(max_similarity),
                    Absent, FALSE, Absent)
    ELSE ResultDict(FALSE, Absent,
                    IF SimGT(max_similarity, Zero) THEN Round3(max_similarity) ELSE 0,
                    UnknownError, TRUE, Absent)
DecideWith(threshold, max_similarity, best_match_name) ==
    IF SimGT(max_similarity, threshold)
    THEN ResultDict(TRUE, best_match_name, Round3(max_similarity),
                    Absent, FALSE, Absent)
    ELSE ResultDict(FALSE, Absent,
                    IF SimGT(max_similarity, Zero) THEN Round3(max_similarity) ELSE 0,
                    UnknownError, TRUE, Absent)

\* the decision under CONFIG['similarity_threshold'] = 0.7
DecideAtHalf(max_similarity, best_match_name) ==
    DecideWith([num |-> 1, den |-> 2], max_similarity, best_match_name)
Decide(max_similarity, best_match_name) ==
    DecideWith(SimilarityThreshold, max_similarity, best_match_name)

\* list.insert(i - 1, stem)
InsertAt(order, i, stem) ==
    SubSeq(order, 1, i - 1) \o <<stem>> \o SubSeq(order, i, Len(order))

\* The listings a directory may give once it holds the stems S, having listed
\* its earlier stems as order: a new file may turn up anywhere, the files
\* that were there keep their relative order.  (glob lists in the order of
\* os.scandir, which is arbitrary but does not change while the directory
\* stays as it is.)
Listings(order, S) ==
    IF S = {order[i] : i \in DOMAIN order} THEN {order}
    ELSE {InsertAt(order, i, CHOOSE stem \in S : \A j \in DOMAIN order : order[j] # stem) :
            i \in 1..(Len(order) + 1)}

\* ------------------------------------------------------- identify_plant
\* identify_plant's local variables at the end of a call that stopped in
\* the given phase before the scan, and how often the call wrote the cache
NoScan(phase) ==
    [phase |-> phase, max_similarity |-> Zero, best_match_name |-> None,
     compared |-> 0, skipped |-> 0, cache_writes |-> 0]

\* an early return of identify_plant
Stopped(r, phase) ==
    [raised |-> FALSE, exc |-> <<>>, cache |-> cacheFile, result |-> r,
     printed |-> <<>>, locals |-> NoScan(phase)]

\* an exception on the way to identify_plant's outer except clause
Raised(exc, phase) ==
    [raised |-> TRUE, exc |-> exc, cache |-> cacheFile,
     result |-> ErrorResult(<<>>), printed |-> <<>>, locals |-> NoScan(phase)]

\* after the loops: rewrite the cache file, then decide
VerdictNoFlush(s) ==
    [raised |-> FALSE, exc |-> <<>>,
     cache |-> cacheFile,
     result |-> Decide(s.max_similarity, s.best_match_name),
     printed |-> s.printed,
     locals |-> [phase |-> "Decided", max_similarity |-> s.max_similarity,
                 best_match_name |-> s.best_match_name,
                 compared |-> s.compared, skipped |-> s.skipped,
                 cache_writes |-> 0]]
Verdict(s) ==
    [raised |-> FALSE, exc |-> <<>>,
     cache |-> [state |-> "ok", data |-> s.cached_features],
     result |-> Decide(s.max_similarity, s.best_match_name),
     printed |-> s.printed,
     locals |-> [phase |-> "Decided", max_similarity |-> s.max_similarity,
                 best_match_name |-> s.best_match_name,
                 compared |-> s.compared, skipped |-> s.skipped,
                 cache_writes |-> 1]]

\* Lines 182-223: the static loop, then the learned loop, starting from the
\* cached_features that lines 176-180 produced
IdentifyScan(image_path, order, cached_features) ==
    ScanLearned(order, learned.files,
        extract_features(preprocess_image(source[image_path]).image),
        ScanStatic(static,
            extract_features(preprocess_image(source[image_path]).image),
            ScanStart(cached_features)))

\* The body of identify_plant's outer try, for a learned directory that
\* enumerates its files in the given order.
IdentifyBodyLearnedFirst(image_path, order) ==
    IF ~Exists(image_path)
    THEN Stopped(ErrorResult(NotFoundError(image_path)), "NotFound")
    ELSE IF ~PilVerifies(source[image_path])
    THEN Stopped(ErrorResult(InvalidError), "Invalid")
    ELSE IF ~preprocess_image(source[image_path]).ok
    THEN Raised(PreprocessError, "Preprocessing")
    ELSE IF cacheFile.state = "corrupt"
    THEN Raised(UnpickleError, "CacheLoad")
    ELSE Verdict(ScanStatic(static,
                    extract_features(preprocess_image(source[image_path]).image),
                    ScanLearned(order, learned.files,
                        extract_features(preprocess_image(source[image_path]).image),
                        ScanStart(LoadCache))))
IdentifyBody(image_path, order) ==
    IF ~Exists(image_path)
    THEN Stopped(ErrorResult(NotFoundError(image_path)), "NotFound")
    ELSE IF ~PilVerifies(source[image_path])
    THEN Stopped(ErrorResult(InvalidError), "Invalid")
    ELSE IF ~preprocess_image(source[image_path]).ok
    THEN Raised(PreprocessError, "Preprocessing")
    ELSE IF cacheFile.state = "corrupt"
    THEN Raised(UnpickleError, "CacheLoad")
    ELSE Verdict(IdentifyScan(image_path, order, LoadCache))

\* except Exception as e: return {'success': False, 'error': ...}
CatchIdentify(body) ==
    IF body.raised
    THEN [body EXCEPT !.raised = FALSE,
                      !.result = ErrorResult(IdentifyFailed(body.exc))]
    ELSE body

identify_plantNoExcept(image_path, order) == IdentifyBody(image_path, order)
identify_plant(image_path, order) == CatchIdentify(IdentifyBody(image_path, order))

\* ---------------------------------------------------------- learn_plant
\* cached_features[plant_name] = features
StoreFeaturesKeepFirst(cached_features, plant_name, features) ==
    IF plant_name \in DOMAIN cached_features THEN cached_features
    ELSE DictSet(cached_features, plant_name, features)
StoreFeatures(cached_features, plant_name, features) ==
    DictSet(cached_features, plant_name, features)

\* log_data.append(log_entry)
LogAppendTruncating(log_data, log_entry) == <<log_entry>>
LogAppend(log_data, log_entry) == Append(log_data, log_entry)

\* learn_plant returns r, leaving the three files as given
LearnReturn(r, dir, cache, log) ==
    [raised |-> FALSE, exc |-> <<>>, result |-> r,
     learned |-> dir, cache |-> cache, log |-> log]

\* an exception on the way to learn_plant's except clause; the files stay
\* as the call has left them so far
LearnRaise(exc, dir, cache, log) ==
    [raised |-> TRUE, exc |-> exc, result |-> ErrorResult(<<>>),
     learned |-> dir, cache |-> cache, log |-> log]

\* Log the learning event: read the log, append, rewrite, return success
LearnLogNoHash(image_path, name, destination, now, copied, cache1) ==
    IF logFile.state = "corrupt"
    THEN LearnRaise(JSONDecodeError, copied, cache1, logFile)
    ELSE LearnReturn(
            ResultDict(TRUE, name, NoConfidence, Absent, FALSE, destination),
            copied, cache1,
            [state |-> "ok",
             data |-> LogAppend(logFile.data,
                         [timestamp |-> now, plant_name |-> name,
                          image_path |-> name \o <<"_">> \o Timestamp(now),
                          original_path |-> image_path])])
LearnLog(image_path, name, destination, now, copied, cache1) ==
    IF logFile.state = "corrupt"
    THEN LearnRaise(JSONDecodeError, copied, cache1, logFile)
    ELSE LearnReturn(
            ResultDict(TRUE, name, NoConfidence, Absent, FALSE, destination),
            copied, cache1,
            [state |-> "ok",
             data |-> LogAppend(logFile.data,
                         [timestamp |-> now, plant_name |-> name,
                          image_path |-> destination,
                          original_path |-> image_path])])

\* Update features cache: preprocess the stored copy, read the cache, set the
\* entry, rewrite the cache
LearnCache(image_path, name, destination, now, copied) ==
    IF ~preprocess_image(copied.files[destination]).ok
    THEN LearnRaise(PreprocessError, copied, cacheFile, logFile)
    ELSE IF cacheFile.state = "corrupt"
    THEN LearnRaise(UnpickleError, copied, cacheFile, logFile)
    ELSE LearnLog(image_path, name, destination, now, copied,
            [state |-> "ok",
             data |-> StoreFeatures(LoadCache, name,
                         extract_features(
                             preprocess_image(copied.files[destination]).image))])

\* learned_path.mkdir(...); shutil.copy2(image_path, destination)
LearnCopy(image_path, name, destination, now) ==
    LearnCache(image_path, name, destination, now,
               [exists |-> TRUE,
                files |-> DictSet(learned.files, destination, source[image_path])])

\* The body of learn_plant's try.  now is what datetime.now() returns during
\* the call: the local wall clock, which is not monotonic.
LearnBody(image_path, plant_name, now) ==
    IF ~Exists(image_path)
    THEN LearnReturn(ErrorResult(NotFoundError(image_path)),
                     learned, cacheFile, logFile)
    ELSE IF plant_name = <<>> \/ Strip(plant_name) = <<>>
    THEN LearnReturn(ErrorResult(EmptyNameError), learned, cacheFile, logFile)
    ELSE LearnCopy(image_path, CleanName(plant_name),
                   Filename(CleanName(plant_name), now, source[image_path]), now)

\* shutil.copy2(image_path, destination), seen from the source: the file
\* stays where it is, with its content
CopyThatMoves(files, image_path) ==
    [p \in (DOMAIN files) \ {image_path} |-> files[p]]
Copy2Source(files, image_path) == files

\* the input files after learn_plant: the copy is reached once both
\* validations have passed
LearnSource(image_path, plant_name) ==
    IF ~Exists(image_path) THEN source
    ELSE IF plant_name = <<>> \/ Strip(plant_name) = <<>> THEN source
    ELSE Copy2Source(source, image_path)

\* except Exception as e: return {'success': False, 'error': ...}
CatchLearn(body) ==
    IF body.raised
    THEN [body EXCEPT !.raised = FALSE,
                      !.result = ErrorResult(LearnFailed(body.exc))]
    ELSE body

learn_plant(image_path, plant_name, now) ==
    CatchLearn(LearnBody(image_path, plant_name, now))

\* ------------------------------------------------------------------- main
\* sys.exit(0 if result['success'] else 1)
ExitStatusZero(r) == 0
ExitStatus(r) == IF r.success THEN 0 ELSE 1

\* len(sys.argv) < 2
MainUsage ==
    /\ call' = [op |-> "usage", path |-> "", label |-> <<>>, rep |-> FALSE]
    /\ result' = ErrorResult(UsageError)
    /\ stdout' = <<"json">>
    /\ exitCode' = 1
    /\ uncaught' = FALSE
    /\ locals' = NoScan("None")
    /\ UNCHANGED <<source, static, learned, dirOrder, cacheFile, logFile, hist, proc, calc>>

\* the learning branch of main, r being what learn_plant did
LearnRequest(image_path, plant_name, r) ==
    /\ call' = [op |-> "learn", path |-> image_path, label |-> plant_name,
                rep |-> FALSE]
    /\ result' = IF r.raised THEN ErrorResult(LearnFailed(r.exc)) ELSE r.result
    /\ stdout' = <<"json">>
    /\ exitCode' = IF r.raised THEN 1 ELSE ExitStatus(r.result)
    /\ uncaught' = r.raised
    /\ source' = LearnSource(image_path, plant_name)
    /\ learned' = r.learned
    /\ dirOrder' \in Listings(dirOrder, DOMAIN r.learned.files)
    /\ cacheFile' = r.cache
    /\ logFile' = r.log
    /\ hist' = IF ~r.raised /\ r.result.success
               THEN Append(hist, [plant_name |-> r.result.plant_name,
                                  path |-> image_path])
               ELSE hist
    /\ locals' = NoScan("None")
    /\ UNCHANGED <<static, proc, calc>>

\* len(sys.argv) == 3: a learning request
MainLearn(image_path, plant_name, now) ==
    /\ (Exists(image_path) /\ Strip(plant_name) # <<>>) =>
            /\ Cardinality(DOMAIN learned.files) < MaxFiles
            /\ Len(logFile.data) < MaxLog
    /\ LearnRequest(image_path, plant_name,
                    learn_plant(image_path, plant_name, now))

\* the identification branch of main, r being what identify_plant did
IdentifyRequest(image_path, r) ==
    /\ call' = [op |-> "identify", path |-> image_path, label |-> <<>>,
                rep |-> call.op = "identify" /\ call.path = image_path]
    /\ result' = IF r.raised THEN ErrorResult(UnexpectedError(r.exc)) ELSE r.result
    /\ stdout' = r.printed \o <<"json">>
    /\ exitCode' = IF r.raised THEN 1 ELSE ExitStatus(r.result)
    /\ uncaught' = r.raised
    /\ cacheFile' = r.cache
    /\ locals' = r.locals
    /\ UNCHANGED <<source, static, learned, dirOrder, logFile, hist, proc, calc>>

\* any other argument count: regular identification of sys.argv[1]
MainIdentify(image_path) ==
    IdentifyRequest(image_path, identify_plant(image_path, dirOrder))

\* A fresh deployment: no learned directory yet.
Init ==
    /\ \E d \in Deployments :
          /\ static = d.static
          /\ cacheFile = [state |-> d.cache, data |-> EmptyDict]
          /\ logFile = [state |-> d.log, data |-> <<>>]
    /\ source = FS
    /\ learned = [exists |-> FALSE, files |-> EmptyDict]
    /\ dirOrder = <<>>
    /\ call = [op |-> "none", path |-> "", label |-> <<>>, rep |-> FALSE]
    /\ result = ErrorResult(<<>>)
    /\ locals = NoScan("None")
    /\ uncaught = FALSE
    /\ stdout = <<>>
    /\ exitCode = 0
    /\ hist = <<>>
    /\ proc = <<>>
    /\ calc = <<>>

Next ==
    \/ MainUsage
    \/ \E image_path \in LearnPaths, plant_name \in RawLabels, now \in Clock :
          MainLearn(image_path, plant_name, now)
    \/ \E image_path \in Paths : MainIdentify(image_path)

Spec == Init /\ [][Next]_vars

\* ------------------------------------------- concurrent learn requests
\* Two learn_plant invocations running as separate processes.  Each one goes
\* through the function's file operations in program order; they interleave
\* freely, since the code takes no lock.
Procs == {1, 2}

\* a process that has not started
Idle ==
    [pc |-> "idle", image_path |-> "", plant_name |-> <<>>, now |-> 0,
     destination |-> <<>>, features |-> <<>>, cached_features |-> EmptyDict,
     log_data |-> <<>>, result |-> ErrorResult(<<>>)]

\* return result
Return(p, r) == [proc[p] EXCEPT !.pc = "done", !.result = r]

\* with open(log_file, 'w') as f: json.dump(log_data, f): the file becomes
\* what the process holds in memory
WriteLogFileMerging(on_disk, log_data) ==
    Append(on_disk, log_data[Len(log_data)])
WriteLogFile(on_disk, log_data) == log_data

\* Lines 256-287: validate the inputs, copy the image under its new name and
\* compute its descriptor.
PStart(p, image_path, plant_name, now) ==
    /\ proc[p].pc = "idle"
    /\ IF ~Exists(image_path)
       THEN /\ proc' = [proc EXCEPT ![p] =
                           Return(p, ErrorResult(NotFoundError(image_path)))]
            /\ UNCHANGED <<learned, dirOrder>>
       ELSE IF plant_name = <<>> \/ Strip(plant_name) = <<>>
       THEN /\ proc' = [proc EXCEPT ![p] = Return(p, ErrorResult(EmptyNameError))]
            /\ UNCHANGED <<learned, dirOrder>>
       ELSE /\ learned' =
                 [exists |-> TRUE,
                  files |-> DictSet(learned.files,
                               Filename(CleanName(plant_name), now, source[image_path]),
                               source[image_path])]
            /\ dirOrder' \in Listings(dirOrder,
                    DOMAIN learned.files
                    \cup {Filename(CleanName(plant_name), now, source[image_path])})
            /\ proc' = [proc EXCEPT ![p] =
                 IF ~preprocess_image(source[image_path]).ok
                 THEN Return(p, ErrorResult(LearnFailed(PreprocessError)))
                 ELSE [proc[p] EXCEPT
                         !.pc = "copied",
                         !.image_path = image_path,
                         !.plant_name = CleanName(plant_name),
                         !.now = now,
                         !.destination =
                             Filename(CleanName(plant_name), now, source[image_path]),
                         !.features =
                             extract_features(preprocess_image(source[image_path]).image)]]
    /\ UNCHANGED <<source, static, cacheFile, logFile, call, result, locals,
                   uncaught, stdout, exitCode, hist, calc>>

\* Lines 289-293: read the whole cache file
PReadCache(p) ==
    /\ proc[p].pc = "copied"
    /\ proc' = [proc EXCEPT ![p] =
          IF cacheFile.state = "corrupt"
          THEN Return(p, ErrorResult(LearnFailed(UnpickleError)))
          ELSE [proc[p] EXCEPT !.pc = "cache_read",
                               !.cached_features = LoadCache]]
    /\ UNCHANGED <<source, static, learned, dirOrder, cacheFile, logFile, call, result,
                   locals, uncaught, stdout, exitCode, hist, calc>>

\* Lines 295-298: set the entry in memory and rewrite the whole cache file
PWriteCache(p) ==
    /\ proc[p].pc = "cache_read"
    /\ cacheFile' = [state |-> "ok",
                     data |-> StoreFeatures(proc[p].cached_features,
                                            proc[p].plant_name, proc[p].features)]
    /\ proc' = [proc EXCEPT ![p].pc = "cache_written"]
    /\ UNCHANGED <<source, static, learned, dirOrder, logFile, call, result, locals,
                   uncaught, stdout, exitCode, hist, calc>>

\* Lines 301-315: build the entry, read the whole log and append in memory
PReadLog(p) ==
    /\ proc[p].pc = "cache_written"
    /\ proc' = [proc EXCEPT ![p] =
          IF logFile.state = "corrupt"
          THEN Return(p, ErrorResult(LearnFailed(JSONDecodeError)))
          ELSE [proc[p] EXCEPT
                  !.pc = "log_read",
                  !.log_data =
                      LogAppend(logFile.data,
                          [timestamp |-> proc[p].now,
                           plant_name |-> proc[p].plant_name,
                           image_path |-> proc[p].destination,
                           original_path |-> proc[p].image_path])]]
    /\ UNCHANGED <<source, static, learned, dirOrder, cacheFile, logFile, call, result,
                   locals, uncaught, stdout, exitCode, hist, calc>>

\* Lines 317-325: rewrite the whole log and return success
PWriteLog(p) ==
    /\ proc[p].pc = "log_read"
    /\ logFile' = [state |-> "ok",
                   data |-> WriteLogFile(logFile.data, proc[p].log_data)]
    /\ proc' = [proc EXCEPT ![p] =
          Return(p, ResultDict(TRUE, proc[p].plant_name, NoConfidence, Absent,
                               FALSE, proc[p].destination))]
    /\ UNCHANGED <<source, static, learned, dirOrder, cacheFile, call, result, locals,
                   uncaught, stdout, exitCode, hist, calc>>

\* Two processes about to start on a fresh deployment.
ConcInit ==
    /\ \E d \in Deployments :
          /\ static = d.static
          /\ cacheFile = [state |-> d.cache, data |-> EmptyDict]
          /\ logFile = [state |-> d.log, data |-> <<>>]
    /\ source = FS
    /\ learned = [exists |-> FALSE, files |-> EmptyDict]
    /\ dirOrder = <<>>
    /\ call = [op |-> "none", path |-> "", label |-> <<>>, rep |-> FALSE]
    /\ result = ErrorResult(<<>>)
    /\ locals = NoScan("None")
    /\ uncaught = FALSE
    /\ stdout = <<>>
    /\ exitCode = 0
    /\ hist = <<>>
    /\ proc = [p \in Procs |-> Idle]
    /\ calc = <<>>

ConcNext ==
    \/ \E p \in Procs, image_path \in LearnPaths, plant_name \in RawLabels,
          now \in Clock : PStart(p, image_path, plant_name, now)
    \/ \E p \in Procs : PReadCache(p)
    \/ \E p \in Procs : PWriteCache(p)
    \/ \E p \in Procs : PReadLog(p)
    \/ \E p \in Procs : PWriteLog(p)

ConcSpec == ConcInit /\ [][ConcNext]_vars

\* ------------------------------- identify_plant racing with learn_plant
\* Process 1 runs learn_plant as above; process 2 runs identify_plant in three
\* steps: it reads the cache file, scans, and rewrites the cache file.  The
\* two interleave freely.
Learner == 1
Identifier == 2

\* the identifying process before it starts.  read_at and flushed_at record
\* where the learner stood when this process read and rewrote the cache file.
IdleIdentify ==
    [pc |-> "idle", image_path |-> "", features |-> <<>>,
     cached_features |-> EmptyDict, scan |-> ScanStart(EmptyDict),
     read_at |-> "", flushed_at |-> "", result |-> ErrorResult(<<>>)]

\* with open(CONFIG['features_cache'], 'wb') as f: pickle.dump(...): the file
\* becomes what the process holds in memory
WriteCacheFileMerging(on_disk, written) ==
    [state |-> "ok",
     data |-> [k \in (DOMAIN on_disk.data) \cup (DOMAIN written.data) |->
                 IF k \in DOMAIN on_disk.data THEN on_disk.data[k]
                 ELSE written.data[k]]]
WriteCacheFile(on_disk, written) == written

\* Lines 155-180: the two checks, the query's descriptor, and the read of the
\* whole cache file; a call that ends before the scan returns here.
IStart(p, image_path) ==
    /\ proc[p].pc = "idle"
    /\ proc' = [proc EXCEPT ![p] =
          IF identify_plant(image_path, dirOrder).locals.phase # "Decided"
          THEN [proc[p] EXCEPT
                  !.pc = "done", !.image_path = image_path,
                  !.result = identify_plant(image_path, dirOrder).result]
          ELSE [proc[p] EXCEPT
                  !.pc = "cache_loaded", !.image_path = image_path,
                  !.features =
                      extract_features(preprocess_image(source[image_path]).image),
                  !.cached_features = LoadCache,
                  !.read_at = proc[Learner].pc]]
    /\ UNCHANGED <<source, static, learned, dirOrder, cacheFile, logFile, call,
                   result, locals, uncaught, stdout, exitCode, hist, calc>>

\* Lines 182-223: the two loops, over the directories as they are now
IScan(p) ==
    /\ proc[p].pc = "cache_loaded"
    /\ proc' = [proc EXCEPT ![p] =
          [proc[p] EXCEPT
              !.pc = "scanned",
              !.scan = ScanLearned(dirOrder, learned.files, proc[p].features,
                          ScanStatic(static, proc[p].features,
                                     ScanStart(proc[p].cached_features)))]]
    /\ UNCHANGED <<source, static, learned, dirOrder, cacheFile, logFile, call,
                   result, locals, uncaught, stdout, exitCode, hist, calc>>

\* Lines 225-243: rewrite the whole cache file and return the verdict
IFlush(p) ==
    /\ proc[p].pc = "scanned"
    /\ cacheFile' = WriteCacheFile(cacheFile, Verdict(proc[p].scan).cache)
    /\ proc' = [proc EXCEPT ![p] =
          [proc[p] EXCEPT !.pc = "done",
                          !.flushed_at = proc[Learner].pc,
                          !.result = Verdict(proc[p].scan).result]]
    /\ UNCHANGED <<source, static, learned, dirOrder, logFile, call, result,
                   locals, uncaught, stdout, exitCode, hist, calc>>

\* The stores the race may start from: a fresh deployment, or one in which
\* b.jpg has been taught as " T" by an earlier request.
TaughtStem == Filename(CleanName(<<" ", "T">>), 0, FS["b.jpg"])

RaceStores ==
    { [learned |-> [exists |-> FALSE, files |-> EmptyDict], order |-> <<>>,
       cache |-> [state |-> "absent", data |-> EmptyDict],
       log |-> [state |-> "absent", data |-> <<>>]],
      [learned |-> [exists |-> TRUE,
                    files |-> DictSet(EmptyDict, TaughtStem, FS["b.jpg"])],
       order |-> <<TaughtStem>>,
       cache |-> [state |-> "ok",
                  data |-> StoreFeatures(EmptyDict, CleanName(<<" ", "T">>),
                                         FeatureOf[FS["b.jpg"]])],
       log |-> [state |-> "ok",
                data |-> LogAppend(<<>>,
                            [timestamp |-> 0,
                             plant_name |-> CleanName(<<" ", "T">>),
                             image_path |-> TaughtStem,
                             original_path |-> "b.jpg"])]] }

RaceInit ==
    /\ source = FS
    /\ static \in StaticDatasets
    /\ \E store \in RaceStores :
          /\ learned = store.learned
          /\ dirOrder = store.order
          /\ cacheFile = store.cache
          /\ logFile = store.log
    /\ call = [op |-> "none", path |-> "", label |-> <<>>, rep |-> FALSE]
    /\ result = ErrorResult(<<>>)
    /\ locals = NoScan("None")
    /\ uncaught = FALSE
    /\ stdout = <<>>
    /\ exitCode = 0
    /\ hist = <<>>
    /\ proc = (Learner :> Idle) @@ (Identifier :> IdleIdentify)
    /\ calc = <<>>

RaceNext ==
    \/ \E image_path \in LearnPaths, plant_name \in RawLabels, now \in Clock :
          PStart(Learner, image_path, plant_name, now)
    \/ PReadCache(Learner)
    \/ PWriteCache(Learner)
    \/ PReadLog(Learner)
    \/ PWriteLog(Learner)
    \/ \E image_path \in Paths : IStart(Identifier, image_path)
    \/ IScan(Identifier)
    \/ IFlush(Identifier)

RaceSpec == RaceInit /\ [][RaceNext]_vars

\* --------------------------------------- calculate_similarity on its own
\* The vectors handed to calculate_similarity: up to MaxLen small components.
Components == -1..2

\* a descriptor whose cosine with <<1, 0, 0>> is 0.70035, between the
\* threshold and the next thousandth
NearThreshold == <<70, 71, 7>>

Vectors == UNION {[1..n -> Components] : n \in 1..MaxLen} \cup {NearThreshold}

\* what the call left behind: the returned float, whether it printed, whether
\* it divided, what the scan's comparison step makes of the pair, and the
\* verdict of a scan that ends there
Calculated(features1, features2, sim, scan) ==
    [features1 |-> features1, features2 |-> features2, done |-> TRUE,
     similarity |-> sim.value, printed |-> sim.printed,
     divided |-> sim.divided, scan |-> scan,
     verdict |-> Decide(scan.max_similarity, scan.best_match_name)]

\* similarity = calculate_similarity(features, learned_features) and the
\* update of the best match that follows it
Calculate ==
    /\ ~calc.done
    /\ calc' = Calculated(calc.features1, calc.features2,
                          calculate_similarity(calc.features1, calc.features2),
                          Compare(ScanStart(EmptyDict), calc.features1,
                                  calc.features2, <<"q">>))
    /\ UNCHANGED <<source, static, learned, dirOrder, cacheFile, logFile, call, result,
                   locals, uncaught, stdout, exitCode, hist, proc>>

CalcInit ==
    /\ static = <<>>
    /\ cacheFile = [state |-> "absent", data |-> EmptyDict]
    /\ logFile = [state |-> "absent", data |-> <<>>]
    /\ source = FS
    /\ learned = [exists |-> FALSE, files |-> EmptyDict]
    /\ dirOrder = <<>>
    /\ call = [op |-> "none", path |-> "", label |-> <<>>, rep |-> FALSE]
    /\ result = ErrorResult(<<>>)
    /\ locals = NoScan("None")
    /\ uncaught = FALSE
    /\ stdout = <<>>
    /\ exitCode = 0
    /\ hist = <<>>
    /\ proc = <<>>
    /\ \E features1 \in Vectors, features2 \in Vectors :
          calc = [features1 |-> features1, features2 |-> features2,
                  done |-> FALSE, similarity |-> Zero, printed |-> FALSE,
                  divided |-> FALSE, scan |-> ScanStart(EmptyDict),
                  verdict |-> ErrorResult(<<>>)]

CalcNext == Calculate

CalcSpec == CalcInit /\ [][CalcNext]_vars

\* ================================================================ claims
\* C1: an identify_plant(img) issued immediately after a successful
\* learn_plant(img, label) returns success with plant_name equal to the
\* normalized label that learn returned and confidence > 0.999.
C1_LearnThenIdentify ==
    [][ (call.op = "learn" /\ result.success
            /\ call'.op = "identify" /\ call'.path = call.path)
          => /\ result'.success
             /\ result'.plant_name = result.plant_name
             /\ result'.confidence > 999 ]_vars

\* C2: for every label that a successful learn used, the cache holds an entry
\* for it, and the entry is the descriptor of the image of the most recent
\* successful learn under that label, whatever identify calls intervened.
LastLearn(plant_name) ==
    CHOOSE i \in DOMAIN hist :
        /\ hist[i].plant_name = plant_name
        /\ \A j \in DOMAIN hist : hist[j].plant_name = plant_name => j <= i

C2_CacheLastWriteWins ==
    \A i \in DOMAIN hist :
        LET L == hist[i].plant_name
        IN  /\ cacheFile.state = "ok"
            /\ L \in DOMAIN cacheFile.data
            /\ cacheFile.data[L] = FeatureOf[FS[hist[LastLearn(L)].path]]

\* C2 witness: two successful learns under one label with different images,
\* followed by a completed identification
C2_Witness ==
    /\ call.op = "identify" /\ locals.phase = "Decided"
    /\ \E i, j \in DOMAIN hist :
          i < j /\ hist[i].plant_name = hist[j].plant_name
                /\ hist[i].path # hist[j].path

\* C3: once the scan has completed, identify_plant returns a Match exactly
\* when the best score is strictly greater than 0.7, and otherwise Unknown
\* with success = false and needs_learning = true.
C3_ThresholdDecision ==
    (call.op = "identify" /\ locals.phase = "Decided") =>
        LET above == 10 * locals.max_similarity.num > 7 * locals.max_similarity.den
        IN  /\ result.success <=> above
            /\ above => /\ result.plant_name = locals.best_match_name
                        /\ result.plant_name # None
                        /\ ~result.needs_learning
                        /\ result.error = Absent
            /\ ~above => /\ result.needs_learning
                         /\ result.error = UnknownError
                         /\ result.plant_name = Absent

\* C3 witness: a scan whose best score is 7/10 as a float, which reads 0.7
\* to three decimals and is not above the threshold, ends in Unknown
C3_Witness ==
    /\ call.op = "identify" /\ locals.phase = "Decided"
    /\ locals.max_similarity =
          calculate_similarity(FeatureOf["A"], FeatureOf["B"]).value
    /\ result.confidence = 700
    /\ ~result.success /\ result.needs_learning

\* C4: the audit log is append-only: every step leaves the old log as a
\* prefix of the new one, only a successful learn changes it and appends
\* exactly one entry, and its length is the number of successful learns.
C4_LogAppendOnly ==
    [][ /\ Len(logFile.data) <= Len(logFile'.data)
        /\ SubSeq(logFile'.data, 1, Len(logFile.data)) = logFile.data
        /\ call'.op = "identify" => logFile' = logFile
        /\ hist' # hist =>
              /\ call'.op = "learn" /\ result'.success
              /\ Len(logFile'.data) = Len(logFile.data) + 1
              /\ logFile'.data[Len(logFile'.data)].plant_name = result'.plant_name
        /\ hist' = hist => logFile' = logFile
        /\ Len(logFile'.data) = Len(hist') ]_vars

\* C4 witness: a second successful learn, with an identification in between
\* that left the first entry in place
C4_Witness ==
    /\ call.op = "learn" /\ result.success
    /\ Len(logFile.data) = 2
    /\ logFile.data[1].plant_name # logFile.data[2].plant_name

\* C5: identify_plant and learn_plant always return a result with a boolean
\* success, and an error message when success is false; no exception leaves
\* them, also when an image, the cache or the log cannot be read.
C5_NoFaultEscapes ==
    call.op \in {"identify", "learn"} =>
        /\ ~uncaught
        /\ result.success \in BOOLEAN
        /\ ~result.success => result.error # Absent

\* C5 witness: an identification whose cache file does not unpickle
C5_Witness ==
    /\ call.op = "identify" /\ locals.phase = "CacheLoad"
    /\ cacheFile.state = "corrupt"
    /\ Contains(result.error, <<"identification", "failed">>)

\* C6: a reference file that cannot be processed is skipped and nothing more:
\* whenever the query image is readable and the cache loads, every other
\* reference file is compared and the call ends in Match or Unknown, decided
\* on the best score over the entries that could be processed.
SimMax(S) == CHOOSE x \in S : \A y \in S : ~SimGT(y, x)

C6_RefSims ==
    LET q == FeatureOf[FS[call.path]]
        goodStatic == {i \in DOMAIN static : CvReads(static[i].bytes)}
        resolved == {f \in DOMAIN learned.files :
                        SplitFirst(f) \in DOMAIN cacheFile.data}
    IN  {Zero}
        \cup {calculate_similarity(q, FeatureOf[static[i].bytes]).value :
                i \in goodStatic}
        \cup {calculate_similarity(q, cacheFile.data[SplitFirst(f)]).value :
                f \in resolved}

C6_BadReferenceSkipped ==
    (/\ call.op = "identify"
     /\ call.path \in DOMAIN FS
     /\ FS[call.path] \in {"A", "B"}
     /\ cacheFile.state = "ok") =>
        LET badStatic == {i \in DOMAIN static : ~CvReads(static[i].bytes)}
            badLearned == {f \in DOMAIN learned.files : ~CvReads(learned.files[f])}
        IN  /\ locals.phase = "Decided"
            /\ result.success \/ result.needs_learning
            /\ locals.compared + locals.skipped
                  = Len(static) + Cardinality(DOMAIN learned.files)
            /\ locals.skipped >= Cardinality(badStatic)
            /\ locals.skipped <= Cardinality(badStatic) + Cardinality(badLearned)
            /\ locals.max_similarity = SimMax(C6_RefSims)

\* C6 witness: a bad static file and a bad learned file were both skipped
\* and the call still ended in a Match
C6_Witness ==
    /\ call.op = "identify" /\ locals.phase = "Decided"
    /\ locals.skipped >= 2 /\ locals.compared >= 2
    /\ result.success

\* C7: identify_plant on a path that does not exist returns success = false
\* with an error containing "not found", at once: nothing is verified,
\* preprocessed, scanned or written, and no exception escapes.
C7_MissingFile ==
    [][ (call'.op = "identify" /\ call'.path \notin DOMAIN FS) =>
          /\ ~result'.success
          /\ Contains(result'.error, <<"not", "found">>)
          /\ ~uncaught'
          /\ locals'.phase = "NotFound"
          /\ locals'.compared = 0 /\ locals'.skipped = 0
          /\ stdout' = <<"json">>
          /\ UNCHANGED <<cacheFile, learned, logFile>> ]_vars

\* C7 witness: the missing path was identified while learned files exist
C7_Witness ==
    /\ call.op = "identify" /\ call.path = "nope.jpg"
    /\ DOMAIN learned.files # {}
    /\ ~result.success

\* C8: identify_plant on an existing file that fails image verification
\* returns "Invalid image file" without needs_learning, before any
\* preprocessing, feature extraction or reference scan.
C8_InvalidImage ==
    [][ (/\ call'.op = "identify"
         /\ call'.path \in DOMAIN FS
         /\ FS[call'.path] = "X") =>
          /\ ~result'.success
          /\ SubSeq(result'.error, 1, 3) = <<"Invalid", "image", "file">>
          /\ ~result'.needs_learning
          /\ locals'.phase = "Invalid"
          /\ locals'.compared = 0 /\ locals'.skipped = 0
          /\ stdout' = <<"json">>
          /\ UNCHANGED <<cacheFile, learned, logFile>> ]_vars

\* C8 witness: the unverifiable file was identified while references exist
C8_Witness ==
    /\ call.op = "identify" /\ call.path = "x.jpg"
    /\ static # <<>> /\ DOMAIN learned.files # {}
    /\ Contains(result.error, <<"Invalid">>)

\* C9: learn_plant on a missing path returns the file-not-found error, and on
\* an existing path with a label that is blank after trimming the empty-label
\* error; either way nothing is stored and the cache and the log are left
\* alone.  The path is checked first.
BlankLabel(label) == \A i \in DOMAIN label : label[i] \in {" ", "\t", "\n"}

C9_LearnValidation ==
    [][ call'.op = "learn" =>
          /\ call'.path \notin DOMAIN FS =>
                /\ ~result'.success
                /\ SubSeq(result'.error, 1, 4) = <<"Image", "file", "not", "found">>
                /\ UNCHANGED <<learned, cacheFile, logFile>>
          /\ (call'.path \in DOMAIN FS /\ BlankLabel(call'.label)) =>
                /\ ~result'.success
                /\ result'.error = <<"Plant", "name", "cannot", "be", "empty">>
                /\ UNCHANGED <<learned, cacheFile, logFile>> ]_vars

\* C9 witness: an existing image was offered with a blank label
C9_Witness ==
    /\ call.op = "learn" /\ call.path = "a.jpg" /\ call.label = <<" ">>
    /\ result.error = EmptyNameError

\* C10: whatever main was asked to do, the exit status is 0 exactly when the
\* printed result has success = true, and 1 otherwise.
C10_ExitCode ==
    call.op # "none" =>
        /\ exitCode \in {0, 1}
        /\ exitCode = 0 <=> result.success
        /\ stdout # <<>> /\ stdout[Len(stdout)] = "json"

\* C10 witness: an identification that ended in a Match exited with 0
C10_Witness ==
    /\ call.op = "identify" /\ result.success /\ exitCode = 0

\* C11: two concurrent learn_plant processes can lose an update.  Whenever
\* both have returned success, the log on disk is what the last writer held
\* in memory, and an entry is missing exactly when both read the log before
\* either wrote it; the cache keeps the later writer's label but loses the
\* other's label when the later writer read the cache before the other wrote.
BothLearned == \A p \in Procs : proc[p].pc = "done" /\ proc[p].result.success

C11_LostUpdate ==
    (proc # <<>> /\ BothLearned) =>
        /\ logFile.data \in {proc[p].log_data : p \in Procs}
        /\ Len(logFile.data) \in {1, 2}
        /\ Len(logFile.data) = 1 <=> \A p \in Procs : Len(proc[p].log_data) = 1
        /\ \E p \in Procs :
              /\ proc[p].plant_name \in DOMAIN cacheFile.data
              /\ DOMAIN cacheFile.data =
                    DOMAIN proc[p].cached_features \cup {proc[p].plant_name}

\* C11 witness: both processes returned success, with distinct labels, and the
\* log holds one entry only and the cache one label only
C11_Witness ==
    /\ proc # <<>> /\ BothLearned
    /\ proc[1].plant_name # proc[2].plant_name
    /\ Len(logFile.data) = 1
    /\ \E p \in Procs : proc[p].plant_name \notin DOMAIN cacheFile.data

\* C12: an identify_plant(img) that directly follows an identify_plant(img)
\* returns the same verdict (success, plant_name, confidence) and leaves the
\* cache file exactly as the first call left it.
C12_RepeatedIdentify ==
    [][ (call.op = "identify" /\ call'.op = "identify" /\ call'.path = call.path)
          => /\ result'.success = result.success
             /\ result'.plant_name = result.plant_name
             /\ result'.confidence = result.confidence
             /\ cacheFile' = cacheFile ]_vars

C14_LengthMismatchIsError ==
    (calc # <<>> /\ calc.done /\ Len(calc.features1) # Len(calc.features2)) =>
        /\ calc.scan.compared = 0
        /\ calc.scan.skipped = 1

\* C15: calculate_similarity returns exactly 0.0, without dividing and
\* without an exception, whenever one of the vectors, or both, has norm zero.
IsZeroVector(v) == \A i \in DOMAIN v : v[i] = 0

C15_ZeroVectorGuard ==
    (/\ calc # <<>> /\ calc.done
     /\ IsZeroVector(calc.features1) \/ IsZeroVector(calc.features2)) =>
        /\ calc.similarity = [num |-> 0, den |-> 1]
        /\ ~calc.divided
        /\ ~calc.printed

\* C15 witness: both vectors are zero, and of different lengths
C15_Witness ==
    /\ calc # <<>> /\ calc.done
    /\ calc.features1 = <<0, 0>> /\ calc.features2 = <<0, 0, 0>>
    /\ calc.similarity.num = 0

\* C16: for vectors of one length calculate_similarity lies in [-1, 1], and
\* calculate_similarity(a, a) is 1.0 for every non-zero a.
C16_SimilarityBounds ==
    (calc # <<>> /\ calc.done /\ Len(calc.features1) = Len(calc.features2)) =>
        /\ calc.similarity.den > 0
        /\ calc.similarity.num <= calc.similarity.den
        /\ -calc.similarity.num <= calc.similarity.den
        /\ (calc.features1 = calc.features2 /\ ~IsZeroVector(calc.features1))
              => calc.similarity = [num |-> 1, den |-> 1]

\* C17: the best score of a completed scan does not depend on the
\* threshold, and of two thresholds t1 < t2 the higher never gives a Match
\* that the lower does not give; the configured threshold gives the result
\* that was returned.
Thresholds == {[num |-> 1, den |-> 2], [num |-> 7, den |-> 10],
               [num |-> 9, den |-> 10]}

MatchUnder(t) ==
    DecideWith(t, locals.max_similarity, locals.best_match_name).success

C17_ThresholdMonotone ==
    (call.op = "identify" /\ locals.phase = "Decided") =>
        /\ result = DecideWith([num |-> 7, den |-> 10], locals.max_similarity,
                               locals.best_match_name)
        /\ \A t1, t2 \in Thresholds :
              (t1.num * t2.den < t2.num * t1.den /\ MatchUnder(t2))
                  => MatchUnder(t1)

\* C17 witness: a best score of 0.8 is a Match under 0.5 and under 0.7 and
\* not under 0.9
C17_Witness ==
    /\ call.op = "identify" /\ locals.phase = "Decided"
    /\ result.success /\ result.confidence = 800
    /\ MatchUnder([num |-> 1, den |-> 2])
    /\ ~MatchUnder([num |-> 9, den |-> 10])

\* What a completed identification compared the query with: the descriptor
\* of every decodable static file, and for every learned file whose label
\* the cache knows when the call ends, the cached descriptor of that label.
Descriptors == {FeatureOf[b] : b \in DOMAIN FeatureOf}

ScoreTable ==
    [u \in Descriptors, v \in Descriptors |-> calculate_similarity(u, v).value]

Query == FeatureOf[FS[call'.path]]

StaticScore(i) == ScoreTable[Query, FeatureOf[static[i].bytes]]

LearnedScore(f) == ScoreTable[Query, cacheFile'.data[SplitFirst(f)]]

GoodStatic == {i \in DOMAIN static : static[i].bytes \in {"A", "B", "D"}}

\* learned files the call can process whatever their place in the listing
GoodLearned ==
    {f \in DOMAIN learned.files :
        \/ learned.files[f] \in {"A", "B", "D"}
        \/ SplitFirst(f) \in DOMAIN cacheFile.data}

\* learned files the call may process: those, and the undecodable ones whose
\* label an earlier file of the call put into the cache
MaybeLearned ==
    {f \in DOMAIN learned.files : SplitFirst(f) \in DOMAIN cacheFile'.data}

Scores ==
    {[num |-> 0, den |-> 1]} \cup {StaticScore(i) : i \in GoodStatic}
                             \cup {LearnedScore(f) : f \in MaybeLearned}

\* C18: an identification that reaches the scan goes through every static
\* file and every learned file, whatever score it has found on the way, and
\* decides on the maximum similarity over the entries it could process, or on
\* 0 when there is none or none scores above 0.
C18_FullScan ==
    [][ (call'.op = "identify" /\ locals'.phase = "Decided") =>
          /\ locals'.compared + locals'.skipped
                = Len(static) + Cardinality(DOMAIN learned.files)
          /\ locals'.compared >= Cardinality(GoodStatic) + Cardinality(GoodLearned)
          /\ locals'.compared <= Cardinality(GoodStatic) + Cardinality(MaybeLearned)
          /\ locals'.max_similarity \in Scores
          /\ \A x \in Scores :
                x.num * locals'.max_similarity.den
                    <= locals'.max_similarity.num * x.den ]_vars

\* C18 witness: the second static entry scored 1.0 and the scan went on
\* through the rest of the static dataset and two learned files
C18_Witness ==
    /\ call.op = "identify" /\ call.path = "b.jpg"
    /\ locals.phase = "Decided"
    /\ locals.max_similarity = [num |-> 1, den |-> 1]
    /\ Len(static) = 3 /\ Cardinality(DOMAIN learned.files) = 2
    /\ locals.compared = 4 /\ locals.skipped = 1

\* C19: of the entries that attain the maximum score the first one in
\* enumeration order gives the label, static entries coming before learned
\* ones: the first static entry at the maximum if there is one, else the
\* first learned file at the maximum in the directory's listing.
FirstStatic(S) == CHOOSE i \in S : \A j \in S : i <= j

FirstLearned(S) ==
    CHOOSE k \in DOMAIN dirOrder :
        /\ dirOrder[k] \in S
        /\ \A j \in DOMAIN dirOrder : dirOrder[j] \in S => k <= j

TopStatic == {i \in GoodStatic : StaticScore(i) = locals'.max_similarity}

TopLearned == {f \in GoodLearned : LearnedScore(f) = locals'.max_similarity}

C19_TieBreak ==
    [][ (/\ call'.op = "identify" /\ locals'.phase = "Decided"
         /\ locals'.max_similarity.num > 0) =>
          IF TopStatic # {}
          THEN locals'.best_match_name = static[FirstStatic(TopStatic)].label
          ELSE /\ TopLearned # {}
               /\ locals'.best_match_name
                     = SplitFirst(dirOrder[FirstLearned(TopLearned)]) ]_vars

\* C19 witness: a static entry and a learned entry of another label both
\* score the maximum, and the static label was reported
C19_Witness ==
    /\ call.op = "identify" /\ locals.phase = "Decided"
    /\ call.path = "b.jpg" /\ result.plant_name = <<"t">>
    /\ \E f \in DOMAIN learned.files :
          /\ SplitFirst(f) = <<"r">>
          /\ <<"r">> \in DOMAIN cacheFile.data
          /\ cacheFile.data[<<"r">>] = FeatureOf["B"]

\* C20 as claimed: every identification that passes the existence and
\* validity checks writes the cache file exactly once.
C20_FlushAfterChecks ==
    [][ (call'.op = "identify" /\ locals'.phase \notin {"NotFound", "Invalid"})
          => locals'.cache_writes = 1 ]_vars

\* C20 as amended: an identification that completes its scan writes the cache
\* file exactly once, after the last comparison: what it writes is what it
\* read plus the labels it filled in, and equals what it read when there was
\* no miss; an identification that ends in NotFound, in Invalid or in an
\* "identification failed" error never writes the cache.
C20_FlushOnceAfterScan ==
    [][ call'.op = "identify" =>
          /\ locals'.phase = "Decided" =>
                /\ locals'.cache_writes = 1
                /\ cacheFile'.state = "ok"
                /\ \A L \in DOMAIN cacheFile.data :
                      /\ L \in DOMAIN cacheFile'.data
                      /\ cacheFile'.data[L] = cacheFile.data[L]
                /\ \A L \in DOMAIN cacheFile'.data :
                      L \in DOMAIN cacheFile.data
                      \/ \E f \in DOMAIN learned.files : SplitFirst(f) = L
                /\ (\A f \in DOMAIN learned.files :
                        SplitFirst(f) \in DOMAIN cacheFile.data)
                      => cacheFile'.data = cacheFile.data
          /\ locals'.phase # "Decided" =>
                /\ locals'.cache_writes = 0
                /\ cacheFile' = cacheFile ]_vars

\* C20 witness: an identification without a cache miss rewrote the cache:
\* two learned files, both of a label that a learn request had cached
C20_Witness ==
    /\ call.op = "identify" /\ locals.phase = "Decided"
    /\ locals.cache_writes = 1 /\ locals.compared >= 2
    /\ Cardinality(DOMAIN learned.files) = 2
    /\ DOMAIN cacheFile.data = {<<"t">>}
    /\ \A f \in DOMAIN learned.files : SplitFirst(f) = <<"t">>

\* C21: identify_plant running concurrently with a learn_plant(img, L) can
\* erase what the learn cached.  Once the learn has returned success and the
\* identification has rewritten the cache: if the identification read the
\* cache file before the learn wrote it and rewrote it afterwards, the file is
\* the identification's own copy, whatever the learn had written; otherwise
\* the cache holds the learn's descriptor under L.
BeforeCacheWrite == {"idle", "copied", "cache_read"}

AfterCacheWrite == {"cache_written", "log_read", "done"}

LearnedAndFlushed ==
    /\ proc # <<>>
    /\ proc[Learner].pc = "done" /\ proc[Learner].result.success
    /\ proc[Identifier].pc = "done" /\ proc[Identifier].flushed_at # ""

LearnKept ==
    /\ proc[Learner].plant_name \in DOMAIN cacheFile.data
    /\ cacheFile.data[proc[Learner].plant_name] = proc[Learner].features

StaleFlush ==
    /\ proc[Identifier].read_at \in BeforeCacheWrite
    /\ proc[Identifier].flushed_at \in AfterCacheWrite

C21_IdentifyErasesLearn ==
    LearnedAndFlushed =>
        /\ StaleFlush =>
              cacheFile.data = proc[Identifier].scan.cached_features
        /\ ~StaleFlush => LearnKept

\* C21 witness: the learn returned success and the cache on disk has no entry
\* for its label
C21_Witness ==
    /\ LearnedAndFlushed /\ StaleFlush
    /\ proc[Learner].plant_name \notin DOMAIN cacheFile.data

\* C22: a successful learn_plant returns the label trimmed of surrounding
\* whitespace, lowercased, with every space replaced by an underscore; that
\* name is the cache key and the prefix of the stored file's name, and
\* normalizing it again leaves it unchanged.
NormLabels ==
    UNION {[1..n -> {" ", "\t", "R", "b", "_"}] : n \in 0..3}

\* name is raw without its surrounding whitespace, in lower case, with "_"
\* for " "
IsNormalizedFrom(name, raw) ==
    \E i, j \in DOMAIN raw :
        /\ i <= j
        /\ raw[i] \notin Whitespace /\ raw[j] \notin Whitespace
        /\ \A k \in DOMAIN raw : (k < i \/ k > j) => raw[k] \in Whitespace
        /\ Len(name) = j - i + 1
        /\ \A k \in 1..Len(name) :
              name[k] = IF raw[i + k - 1] = " " THEN "_"
                        ELSE IF raw[i + k - 1] \in DOMAIN UpperToLower
                        THEN UpperToLower[raw[i + k - 1]]
                        ELSE raw[i + k - 1]

C22_LabelNormalization ==
    [][ (call'.op = "learn" /\ result'.success) =>
          /\ IsNormalizedFrom(result'.plant_name, call'.label)
          /\ result'.plant_name \in DOMAIN cacheFile'.data
          /\ result'.stored_path \in DOMAIN learned'.files
          /\ SubSeq(result'.stored_path, 1, Len(result'.plant_name) + 1)
                = result'.plant_name \o <<"_">>
          /\ CleanName(result'.plant_name) = result'.plant_name
          /\ \A l \in NormLabels : CleanName(CleanName(l)) = CleanName(l) ]_vars

\* C22 witness: "r b" was taught as "r_b" after " T" had been taught as "t"
C22_Witness ==
    /\ call.op = "learn" /\ result.success
    /\ call.label = <<"r", " ", "b">>
    /\ result.plant_name = <<"r", "_", "b">>
    /\ \E i \in DOMAIN hist : hist[i].plant_name = <<"t">>

\* C23: learn_plant copies and does not move: after a successful learn the
\* source file is still at its path with its content, the learned directory
\* holds a file of that content at the returned stored_path, and every file
\* the directory held before is still there, the others with their content.
C23_LearnCopies ==
    [][ (call'.op = "learn" /\ result'.success) =>
          /\ source' = source
          /\ call'.path \in DOMAIN source'
          /\ result'.stored_path \in DOMAIN learned'.files
          /\ learned'.files[result'.stored_path] = source'[call'.path]
          /\ \A f \in DOMAIN learned.files :
                /\ f \in DOMAIN learned'.files
                /\ f # result'.stored_path
                      => learned'.files[f] = learned.files[f] ]_vars

\* C23 witness: a successful learn into a directory that already held two
\* files of other names
C23_Witness ==
    /\ call.op = "learn" /\ result.success
    /\ Cardinality(DOMAIN learned.files) = 3
    /\ learned.files[result.stored_path] = source[call.path]

\* C24: a learn_plant that returns success = false, for whatever reason,
\* leaves the learned directory, the cache and the log as they were.
C24_FailedLearnAtomic ==
    [][ (call'.op = "learn" /\ ~result'.success) =>
          /\ learned' = learned
          /\ cacheFile' = cacheFile
          /\ logFile' = logFile ]_vars

\* C25: for every file a successful learn_plant stored, the label that
\* identify_plant reads from the file's name is the normalized label the
\* learn returned and cached under, labels of several words included.
C25_LabelRoundTrip ==
    \A i \in DOMAIN logFile.data :
        /\ logFile.data[i].image_path \in DOMAIN learned.files
        /\ SplitFirst(logFile.data[i].image_path) = logFile.data[i].plant_name

\* C26: the cache is transparent: an identification that completes its scan
\* returns the verdict (success, plant_name, confidence) it would return with
\* the cache file absent, every learned descriptor being recomputed from the
\* stored files.
WithoutCache(image_path) ==
    Decide(IdentifyScan(image_path, dirOrder, EmptyDict).max_similarity,
           IdentifyScan(image_path, dirOrder, EmptyDict).best_match_name)

C26_CacheTransparent ==
    [][ (call'.op = "identify" /\ locals'.phase = "Decided") =>
          /\ result'.success = WithoutCache(call'.path).success
          /\ result'.plant_name = WithoutCache(call'.path).plant_name
          /\ result'.confidence = WithoutCache(call'.path).confidence ]_vars

\* C27: identify_plant leaves the input files, the static dataset, the learned
\* directory and the audit log alone, and keeps every cache entry it found,
\* with its value; all it may add is an entry for the label of a learned file
\* that had none, holding that file's descriptor.
C27_IdentifyFrame ==
    [][ call'.op = "identify" =>
          /\ source' = source /\ static' = static
          /\ learned' = learned /\ dirOrder' = dirOrder
          /\ logFile' = logFile
          /\ cacheFile.state = "corrupt" => cacheFile' = cacheFile
          /\ \A L \in DOMAIN cacheFile.data :
                /\ L \in DOMAIN cacheFile'.data
                /\ cacheFile'.data[L] = cacheFile.data[L]
          /\ \A L \in (DOMAIN cacheFile'.data) \ (DOMAIN cacheFile.data) :
                \E f \in DOMAIN learned.files :
                    /\ SplitFirst(f) = L
                    /\ CvReads(learned.files[f])
                    /\ cacheFile'.data[L] = FeatureOf[learned.files[f]] ]_vars

\* C27 witness: an identification added the entry "r" for a file stored as
\* r_b_..., next to the entries "r_b" and "t" that two learns had written
C27_Witness ==
    /\ call.op = "identify" /\ locals.phase = "Decided"
    /\ DOMAIN cacheFile.data = {<<"r">>, <<"r", "_", "b">>, <<"t">>}
    /\ Len(logFile.data) = 2

\* C28: every invocation of the command line writes exactly one JSON document
\* to standard output and nothing else, also when a reference image fails to
\* process during the scan.
C28_SingleJSONDocument ==
    call.op # "none" => stdout = <<"json">>

\* C29: the confidence reported agrees with the verdict: a Match reports a
\* confidence strictly greater than 0.7, an Unknown one of at most 0.7.
C29_ConfidenceConsistent ==
    (calc # <<>> /\ calc.done) =>
        /\ calc.verdict.success => calc.verdict.confidence > 700
        /\ ~calc.verdict.success => calc.verdict.confidence <= 700

\* C30: every entry of the audit log names a file that is in the learned
\* directory, and its label has an entry in the cache.
C30_LogPointsAtFiles ==
    \A i \in DOMAIN logFile.data :
        /\ learned.exists
        /\ logFile.data[i].image_path \in DOMAIN learned.files
        /\ cacheFile.state = "ok"
        /\ logFile.data[i].plant_name \in DOMAIN cacheFile.data

\* C30 witness: two entries of different labels, after an identification
\* that rewrote the cache
C30_Witness ==
    /\ call.op = "identify" /\ locals.cache_writes = 1
    /\ Len(logFile.data) = 2
    /\ logFile.data[1].plant_name # logFile.data[2].plant_name
    /\ Cardinality(DOMAIN learned.files) = 3

====
